---- MODULE Spec2Model ----
(***************************************************************************)
(* Model of src/DB/ftai_memory.py, lines 1-111: the documents table of the *)
(* FTAI memory store, add_ftai_file (ingest), get_context (retrieve) and   *)
(* inject_prompt_memory (assemble).                                        *)
(*                                                                         *)
(* Text is modelled as a sequence of one-character strings, so that the    *)
(* regular expression, the comma join/split, the LIKE operator and the     *)
(* block formatting are computed character by character.                   *)
(***************************************************************************)
EXTENDS Integers, Sequences, FiniteSets, TLC

VARIABLES documents, sqlite_sequence, now, last

vars == <<documents, sqlite_sequence, now, last>>

----------------------------------------------------------------------------
(* Bounds of the model *)

\* the documents table holds at most MaxDocs rows
MaxDocs == 2
\* CURRENT_TIMESTAMP takes the values 0..MaxClock (whole seconds)
MaxClock == 1
\* file contents of the extraction specification: every text up to this length
MaxRawLen == 4

----------------------------------------------------------------------------
(* Characters *)

\* the characters Python's \w matches, among those the model uses
WordChars == {"a", "b", "A", "_", "u", "n", "k", "o", "w", "x"}

IsWord(c) == c \in WordChars

\* SQLite's LIKE folds the case of ASCII letters
Lower(c) == IF c = "A" THEN "a" ELSE c

\* every sequence over S of length at most n
RECURSIVE StringsUpTo(_, _)
StringsUpTo(S, n) ==
    IF n = 0 THEN {<<>>}
    ELSE LET shorter == StringsUpTo(S, n - 1)
         IN  shorter \cup {Append(s, c) : s \in {t \in shorter : Len(t) = n - 1}, c \in S}

\* s \o t \o ... for a sequence of sequences
RECURSIVE Concat(_)
Concat(ss) == IF ss = <<>> THEN <<>> ELSE Head(ss) \o Concat(Tail(ss))

----------------------------------------------------------------------------
(* The file system add_ftai_file reads *)

\* "a" and "d/b" are regular files, "d" is a directory, "m" does not exist
FileA == <<"a">>
FileB == <<"d", "/", "b">>
DirD == <<"d">>
Missing == <<"m">>

Paths == {FileA, FileB, DirD, Missing}

\* os.path.exists(file_path)
PathExists(path) == path \in {FileA, FileB, DirD}

\* open(file_path, 'r') succeeds: the path names a regular, readable file
CanOpen(path) == path \in {FileA, FileB}

\* os.path.basename: what follows the last "/"
RECURSIVE Basename(_)
Basename(path) ==
    IF path = <<>> THEN <<>>
    ELSE IF \E i \in 1..Len(path) : path[i] = "/"
         THEN Basename(Tail(path))
         ELSE path

----------------------------------------------------------------------------
(* re.findall(r'@(\w+)', raw), re.search(r'@(\w+)', raw), join and split *)

\* the index of the last character of the run of word characters that starts at i
RECURSIVE RunEnd(_, _)
RunEnd(raw, i) ==
    IF i + 1 <= Len(raw) /\ IsWord(raw[i + 1]) THEN RunEnd(raw, i + 1) ELSE i

\* the scan of re.findall from position i: leftmost match, greedy \w+, the
\* next match is searched after the end of the previous one
RECURSIVE FindAllFrom(_, _)
FindAllFrom(raw, i) ==
    IF i > Len(raw) THEN <<>>
    ELSE IF raw[i] = "@" /\ i + 1 <= Len(raw) /\ IsWord(raw[i + 1])
         THEN LET e == RunEnd(raw, i + 1)
              IN  <<SubSeq(raw, i + 1, e)>> \o FindAllFrom(raw, e + 1)
         ELSE FindAllFrom(raw, i + 1)

\* the matches with the repeated ones dropped, as list(dict.fromkeys(...)) would
RECURSIVE Dedup(_)
Dedup(parts) ==
    IF parts = <<>> THEN <<>>
    ELSE LET front == Dedup(SubSeq(parts, 1, Len(parts) - 1))
             final == parts[Len(parts)]
         IN  IF \E i \in 1..Len(front) : front[i] = final THEN front ELSE Append(front, final)

FindAllDeduplicated(raw) == Dedup(FindAllFrom(raw, 1))

FindAll(raw) == FindAllFrom(raw, 1)

\* re.search: the first position where the pattern matches, as
\* [found |-> TRUE, group1 |-> ...], or found |-> FALSE for None
RECURSIVE SearchFrom(_, _)
SearchFrom(raw, i) ==
    IF i > Len(raw) THEN [found |-> FALSE, group1 |-> <<>>]
    ELSE IF raw[i] = "@" /\ i + 1 <= Len(raw) /\ IsWord(raw[i + 1])
         THEN [found |-> TRUE, group1 |-> SubSeq(raw, i + 1, RunEnd(raw, i + 1))]
         ELSE SearchFrom(raw, i + 1)

Search(raw) == SearchFrom(raw, 1)

\* ','.join(parts)
RECURSIVE Join(_)
Join(parts) ==
    IF parts = <<>> THEN <<>>
    ELSE IF Len(parts) = 1 THEN Head(parts)
         ELSE Head(parts) \o <<",">> \o Join(Tail(parts))

\* s.split(','): the pieces between the commas; ''.split(',') is ['']
RECURSIVE SplitFrom(_, _)
SplitFrom(s, piece) ==
    IF s = <<>> THEN <<piece>>
    ELSE IF Head(s) = "," THEN <<piece>> \o SplitFrom(Tail(s), <<>>)
         ELSE SplitFrom(Tail(s), Append(piece, Head(s)))

\* a split that gives no piece for the empty string
SplitNoEmptyPiece(s) == IF s = <<>> THEN <<>> ELSE SplitFrom(s, <<>>)

Split(s) == SplitFrom(s, <<>>)

Unknown == <<"@", "u", "n", "k", "n", "o", "w", "n">>

\* f"@{match.group(1)}" if match else "@unknown"
FtaiType(raw) ==
    LET match == Search(raw)
    IN  IF match.found THEN <<"@">> \o match.group1 ELSE Unknown

\* json.dumps({"length": len(raw), "tag_count": len(tags.split(','))}), kept
\* as the two numbers it serialises
ParsedJson(raw, tags) == [length |-> Len(raw), tag_count |-> Len(Split(tags))]

----------------------------------------------------------------------------
(* The documents table and the last call *)

\* the tags argument of get_context: None, or a list of tags
NoneTags == [given |-> FALSE, list |-> <<>>]
TagList(tags) == [given |-> TRUE, list |-> tags]

\* no call yet. conn is the connection the call got from
\* sqlite3.connect(DB_PATH), as it is when control is back at the caller:
\* "none" when the call opened none, "closed" after conn.close(), "open" when
\* the call ended without reaching conn.close()
NoCall ==
    [op |-> "none", path |-> <<>>, tags |-> NoneTags, limit |-> 0,
     status |-> "none", value |-> <<>>, rows |-> <<>>, entries |-> <<>>,
     conn |-> "none"]

\* CREATE TABLE IF NOT EXISTS documents (...): the table exists and is empty,
\* AUTOINCREMENT has handed out no id
Init ==
    /\ documents = <<>>
    /\ sqlite_sequence = 0
    /\ now = 0
    /\ last = NoCall

\* a second passes: CURRENT_TIMESTAMP has a resolution of one second
Tick ==
    /\ now < MaxClock
    /\ now' = now + 1
    /\ UNCHANGED <<documents, sqlite_sequence, last>>

\* the row INSERT INTO documents (title, ftai_type, content, parsed_json, tags)
\* adds: id from AUTOINCREMENT, timestamp from DEFAULT CURRENT_TIMESTAMP
NewRow(path, raw) ==
    LET tags == Join(FindAll(raw))
    IN  [id |-> sqlite_sequence + 1,
         title |-> Basename(path),
         ftai_type |-> FtaiType(raw),
         content |-> raw,
         parsed_json |-> ParsedJson(raw, tags),
         tags |-> tags,
         timestamp |-> now]

\* an insert that replaces the row of the same title when there is one
InsertedOrReplaced(path, raw) ==
    IF \E i \in 1..Len(documents) : documents[i].title = Basename(path)
    THEN [i \in 1..Len(documents) |->
             IF documents[i].title = Basename(path) THEN NewRow(path, raw) ELSE documents[i]]
    ELSE Append(documents, NewRow(path, raw))

\* the table after cursor.execute('INSERT INTO documents ...') and conn.commit()
Inserted(path, raw) == Append(documents, NewRow(path, raw))

\* add_ftai_file(file_path), raw being what the file holds when it is read
AddFtaiFile(path, raw) ==
    /\ UNCHANGED now
    /\ IF ~PathExists(path)
       THEN \* return f"File not found: {file_path}"
            /\ last' = [NoCall EXCEPT !.op = "add_ftai_file", !.path = path,
                                      !.status = "returned",
                                      !.value = <<"File not found: ">> \o path]
            /\ UNCHANGED <<documents, sqlite_sequence>>
       ELSE IF ~CanOpen(path)
       THEN \* open() raises (IsADirectoryError, PermissionError)
            /\ last' = [NoCall EXCEPT !.op = "add_ftai_file", !.path = path,
                                      !.status = "raised",
                                      !.value = <<"OSError">>]
            /\ UNCHANGED <<documents, sqlite_sequence>>
       ELSE /\ Len(documents) < MaxDocs
            /\ documents' = Inserted(path, raw)
            /\ sqlite_sequence' = sqlite_sequence + 1
            /\ last' = [NoCall EXCEPT !.op = "add_ftai_file", !.path = path,
                                      !.status = "returned", !.conn = "closed",
                                      !.value = <<"Imported ">> \o Basename(path)
                                                \o <<" with tags: ">>
                                                \o Join(FindAll(raw))]

----------------------------------------------------------------------------
(* The extraction specification: one ingest of any short text *)

\* the characters of the texts: the marker, two word characters, a blank
RawChars == {"@", "a", "b", " "}

\* every text over RawChars up to MaxRawLen, and a file that says "@unknown"
RawInputs == StringsUpTo(RawChars, MaxRawLen) \cup {Unknown}

IngestAny == \E path \in Paths, raw \in RawInputs : documents = <<>> /\ AddFtaiFile(path, raw)

NextExtract == IngestAny

SpecExtract == Init /\ [][NextExtract]_vars

----------------------------------------------------------------------------
(* get_context: the statement text, LIKE, ORDER BY timestamp DESC LIMIT ? *)

\* f"tags LIKE '%{tag}%'": the tag is pasted into the statement text
Clause(tag) == <<"tags LIKE ", "'", "%">> \o tag \o <<"%", "'">>

\* ' OR '.join([...])
RECURSIVE TagQuery(_)
TagQuery(tags) ==
    IF Len(tags) = 1 THEN Clause(Head(tags))
    ELSE Clause(Head(tags)) \o <<" OR ">> \o TagQuery(Tail(tags))

\* the text of the statement for a non-empty tag list
QueryText(tags) ==
    <<"SELECT title, content FROM documents WHERE ">> \o TagQuery(tags)
        \o <<" ORDER BY timestamp DESC LIMIT ?">>

\* SQLite reading the string literals of a statement text from position i:
\* a quote opens a literal, two quotes inside a literal stand for one quote,
\* a single quote closes it. inside: a literal is open; lit: its value so
\* far; lits: the closed literals; rest: the text outside the literals.
RECURSIVE ScanFrom(_, _, _, _, _, _)
ScanFrom(text, i, inside, lit, lits, rest) ==
    IF i > Len(text) THEN [terminated |-> ~inside, literals |-> lits, outside |-> rest]
    ELSE IF ~inside
         THEN IF text[i] = "'"
              THEN ScanFrom(text, i + 1, TRUE, <<>>, lits, rest)
              ELSE ScanFrom(text, i + 1, FALSE, <<>>, lits, Append(rest, text[i]))
         ELSE IF text[i] = "'"
              THEN IF i + 1 <= Len(text) /\ text[i + 1] = "'"
                   THEN ScanFrom(text, i + 2, TRUE, Append(lit, "'"), lits, rest)
                   ELSE ScanFrom(text, i + 1, FALSE, <<>>, Append(lits, lit), rest)
              ELSE ScanFrom(text, i + 1, TRUE, Append(lit, text[i]), lits, rest)

Scan(text) == ScanFrom(text, 1, FALSE, <<>>, <<>>, <<>>)

\* the statement text outside its literals when every tag stays inside its literal
RECURSIVE Skeleton(_)
Skeleton(n) ==
    IF n = 0 THEN <<"SELECT title, content FROM documents WHERE ">>
    ELSE Skeleton(n - 1) \o (IF n = 1 THEN <<>> ELSE <<" OR ">>) \o <<"tags LIKE ">>

\* what cursor.execute makes of the statement: "error" when a literal is left
\* open (sqlite3.OperationalError: unrecognized token), "filter" when the
\* statement is the OR of one LIKE per tag, "other" when a quote of a tag has
\* turned it into another statement
Prepared(tags) ==
    LET scanned == Scan(QueryText(tags))
    IN  IF ~scanned.terminated THEN "error"
        ELSE IF scanned.outside = Skeleton(Len(tags)) \o <<" ORDER BY timestamp DESC LIMIT ?">>
             THEN "filter"
             ELSE "other"

\* the patterns of the LIKE operators of the statement
Patterns(tags) == Scan(QueryText(tags)).literals

\* SQLite's s LIKE p: % stands for any run of characters, _ for any one
\* character, ASCII letters match whatever their case
RECURSIVE Like(_, _)
Like(p, s) ==
    IF p = <<>> THEN s = <<>>
    ELSE IF Head(p) = "%" THEN Like(Tail(p), s) \/ (s # <<>> /\ Like(p, Tail(s)))
    ELSE IF s = <<>> THEN FALSE
    ELSE IF Head(p) = "_" THEN Like(Tail(p), Tail(s))
    ELSE Lower(Head(p)) = Lower(Head(s)) /\ Like(Tail(p), Tail(s))

\* if tags: (None and [] are both false)
Truthy(tags) == tags.given /\ tags.list # <<>>

\* WHERE: the indexes of the rows the statement selects
Selected(tags) ==
    IF Truthy(tags)
    THEN LET ps == Patterns(tags.list)
         IN  {i \in 1..Len(documents) : \E k \in 1..Len(ps) : Like(ps[k], documents[i].tags)}
    ELSE 1..Len(documents)

\* ORDER BY timestamp DESC: the selected rows in an order of non-increasing
\* timestamp. SQL leaves the order of rows with equal timestamps open.
Orders(sel) ==
    {o \in [1..Cardinality(sel) -> sel] :
        /\ \A i, j \in 1..Cardinality(sel) : i # j => o[i] # o[j]
        /\ \A i, j \in 1..Cardinality(sel) :
              i < j => documents[o[i]].timestamp >= documents[o[j]].timestamp}

\* LIMIT ?: the first limit rows; a negative limit is no limit
Limit(o, limit) ==
    IF limit < 0 \/ limit >= Len(o) THEN o ELSE SubSeq(o, 1, limit)

\* SELECT title, content: the tuples cursor.fetchall() returns
Fetch(rows) == [k \in 1..Len(rows) |-> <<documents[rows[k]].title, documents[rows[k]].content>>]

\* the tags arguments of the calls: absent, empty, a tag in another case than
\* the stored one, a LIKE wildcard, two tags, a tag with a quote. Every one
\* of them prepares as "filter" or as "error"; a tag list that prepares as
\* "other" runs a statement this model does not evaluate, and the calls below
\* are not taken with it.
Filters ==
    {NoneTags, TagList(<<>>),
     TagList(<<<<"A">>>>), TagList(<<<<"_">>>>), TagList(<<<<"x">>, <<"b">>>>),
     TagList(<<<<"'">>>>)}

\* limit: int = 5
DefaultLimit == 5

\* the limit arguments of the calls
Limits == {0, 1, DefaultLimit}

\* a retrieval that stamps the rows it returns with the time of the read
GetContextTouching(tags, limit) ==
    /\ UNCHANGED <<sqlite_sequence, now>>
    /\ ~(Truthy(tags) /\ Prepared(tags.list) = "error")
    /\ Truthy(tags) => Prepared(tags.list) = "filter"
    /\ \E o \in Orders(Selected(tags)) :
          /\ last' = [NoCall EXCEPT !.op = "get_context", !.tags = tags, !.limit = limit,
                                    !.status = "returned", !.conn = "closed",
                                    !.rows = Limit(o, limit),
                                    !.entries = Fetch(Limit(o, limit))]
          /\ documents' = [i \in 1..Len(documents) |->
                              IF \E k \in 1..Len(Limit(o, limit)) : Limit(o, limit)[k] = i
                              THEN [documents[i] EXCEPT !.timestamp = now]
                              ELSE documents[i]]

\* get_context(tags, limit)
GetContext(tags, limit) ==
    /\ UNCHANGED <<documents, sqlite_sequence, now>>
    /\ IF Truthy(tags) /\ Prepared(tags.list) = "error"
       THEN \* cursor.execute raises: conn.close() is not reached
            last' = [NoCall EXCEPT !.op = "get_context", !.tags = tags, !.limit = limit,
                                   !.status = "raised", !.conn = "open",
                                   !.value = <<"sqlite3.OperationalError">>]
       ELSE /\ Truthy(tags) => Prepared(tags.list) = "filter"
            /\ \E o \in Orders(Selected(tags)) :
                  last' = [NoCall EXCEPT !.op = "get_context", !.tags = tags, !.limit = limit,
                                         !.status = "returned", !.conn = "closed",
                                         !.rows = Limit(o, limit),
                                         !.entries = Fetch(Limit(o, limit))]

----------------------------------------------------------------------------
(* inject_prompt_memory *)

\* f"# {title}\n{content}\n"
Block(entry) == <<"#", " ">> \o entry[1] \o <<"\n">> \o entry[2] \o <<"\n">>

\* a join that puts a blank line after the separator line as well
RECURSIVE JoinBlocksBlankAfter(_)
JoinBlocksBlankAfter(blocks) ==
    IF blocks = <<>> THEN <<>>
    ELSE IF Len(blocks) = 1 THEN Head(blocks)
         ELSE Head(blocks) \o <<"\n", "-", "-", "-", "\n", "\n">>
                  \o JoinBlocksBlankAfter(Tail(blocks))

\* '\n---\n'.join(blocks)
RECURSIVE JoinBlocks(_)
JoinBlocks(blocks) ==
    IF blocks = <<>> THEN <<>>
    ELSE IF Len(blocks) = 1 THEN Head(blocks)
         ELSE Head(blocks) \o <<"\n", "-", "-", "-", "\n">> \o JoinBlocks(Tail(blocks))

\* an assembly that ends every result with the separator
AssembleTrailingSeparator(entries) ==
    JoinBlocks([k \in 1..Len(entries) |-> Block(entries[k])]) \o <<"\n", "-", "-", "-", "\n">>

\* blocks = [...]; return '\n---\n'.join(blocks)
Assemble(entries) == JoinBlocks([k \in 1..Len(entries) |-> Block(entries[k])])

\* inject_prompt_memory(tags, limit): an exception of get_context propagates
InjectPromptMemory(tags, limit) ==
    /\ UNCHANGED <<documents, sqlite_sequence, now>>
    /\ IF Truthy(tags) /\ Prepared(tags.list) = "error"
       THEN last' = [NoCall EXCEPT !.op = "inject_prompt_memory", !.tags = tags,
                                   !.limit = limit, !.status = "raised",
                                   !.conn = "open",
                                   !.value = <<"sqlite3.OperationalError">>]
       ELSE /\ Truthy(tags) => Prepared(tags.list) = "filter"
            /\ \E o \in Orders(Selected(tags)) :
                  last' = [NoCall EXCEPT !.op = "inject_prompt_memory", !.tags = tags,
                                         !.limit = limit, !.status = "returned",
                                         !.conn = "closed",
                                         !.rows = Limit(o, limit),
                                         !.entries = Fetch(Limit(o, limit)),
                                         !.value = Assemble(Fetch(Limit(o, limit)))]

----------------------------------------------------------------------------
(* The specification of the store *)

\* what the files hold when they are ingested: a text without marker and a
\* text with two markers
Contents == {<<"x">>, <<"@", "a", " ", "@", "b">>}

Ingest == \E path \in Paths, raw \in Contents : AddFtaiFile(path, raw)

Retrieve == \E tags \in Filters, limit \in Limits : GetContext(tags, limit)

Inject == \E tags \in Filters, limit \in Limits : InjectPromptMemory(tags, limit)

\* ingests and retrievals, in any order, as time passes
Next == Tick \/ Ingest \/ Retrieve

Spec == Init /\ [][Next]_vars

\* ingests and assemblies, in any order, as time passes
NextAssemble == Tick \/ Ingest \/ Inject

SpecAssemble == Init /\ [][NextAssemble]_vars

\* the limit arguments of the calls of the specification of all three operations
ReadLimits == {0, DefaultLimit}

RetrieveAny == \E tags \in Filters, limit \in ReadLimits : GetContext(tags, limit)

InjectAny == \E tags \in Filters, limit \in ReadLimits : InjectPromptMemory(tags, limit)

\* ingests, retrievals and assemblies, in any order, as time passes
NextStore == Tick \/ Ingest \/ RetrieveAny \/ InjectAny

SpecStore == Init /\ [][NextStore]_vars

----------------------------------------------------------------------------
(* Claims *)

\* the positions of the tag markers of a text: an "@" followed by a word character
MarkerStarts(raw) == {i \in 1..Len(raw) : raw[i] = "@" /\ i < Len(raw) /\ IsWord(raw[i + 1])}

\* the marker that starts at position i: the longest run of word characters after the "@"
MarkerAt(raw, i) ==
    LET e == CHOOSE e \in (i + 1)..Len(raw) :
                 /\ \A j \in (i + 1)..e : IsWord(raw[j])
                 /\ e = Len(raw) \/ ~IsWord(raw[e + 1])
    IN  [j \in 1..(e - i) |-> raw[i + j]]

\* the markers of a text in order of appearance, one entry per occurrence
Markers(raw) ==
    LET starts == MarkerStarts(raw)
        nth(k) == CHOOSE i \in starts : Cardinality({j \in starts : j < i}) = k - 1
    IN  [k \in 1..Cardinality(starts) |-> MarkerAt(raw, nth(k))]

\* the markers written one after the other with a comma between two of them
CommaSeparated(ms) == Concat([k \in 1..Len(ms) |-> IF k = 1 THEN ms[k] ELSE <<",">> \o ms[k]])

\* the number of commas of a text
CommaCount(s) == Cardinality({i \in 1..Len(s) : s[i] = ","})

\* the rows of the documents table
Rows == {documents[i] : i \in 1..Len(documents)}

\* C3: for every ingested source, the stored ftai_type is the sentinel
\* "@unknown" if and only if the content holds no tag marker.
C3_SentinelIffNoMarker ==
    \A d \in Rows : (d.ftai_type = Unknown) <=> (MarkerStarts(d.content) = {})

\* C4: the stored tags are the tag markers of the content in order of
\* appearance with duplicates preserved: the stored string is the markers,
\* one entry per occurrence, separated by commas.
C4_TagsAreMarkersInOrder ==
    \A d \in Rows : d.tags = CommaSeparated(Markers(d.content))

\* a document whose content holds the same marker twice has been ingested
C4_Witness ==
    /\ last.op = "add_ftai_file"
    /\ \E d \in Rows :
          LET ms == Markers(d.content)
          IN  Len(ms) = 2 /\ ms[1] = ms[2] /\ d.tags = ms[1] \o <<",">> \o ms[2]

\* C5: tag_count is the number of pieces of the comma-joined tag string (its
\* commas plus one): 1 when no tag was extracted, and the number of extracted
\* tags, duplicates counted, when there is at least one.
C5_TagCountIsSplitCount ==
    \A d \in Rows :
        /\ d.parsed_json.tag_count = CommaCount(d.tags) + 1
        /\ d.parsed_json.tag_count =
              IF MarkerStarts(d.content) = {} THEN 1 ELSE Cardinality(MarkerStarts(d.content))

\* a document without any marker has been ingested and its tag_count is 1
C5_Witness ==
    /\ last.op = "add_ftai_file"
    /\ \E d \in Rows :
          MarkerStarts(d.content) = {} /\ d.tags = <<>> /\ d.parsed_json.tag_count = 1

\* C1: every successful ingest appends exactly one row with a fresh id and
\* leaves every row stored before unchanged, whether or not the same source
\* was ingested before (so two ingests of one source add two rows).
C1_IngestAppendsOneRow ==
    [][(/\ last'.op = "add_ftai_file"
        /\ now' = now
        /\ last'.status = "returned"
        /\ Head(last'.value) = "Imported ")
       => /\ Len(documents') = Len(documents) + 1
          /\ SubSeq(documents', 1, Len(documents)) = documents
          /\ \A i \in 1..Len(documents) : documents[i].id # documents'[Len(documents')].id
          /\ documents'[Len(documents')].title = Basename(last'.path)]_vars

\* the same source, holding the same text, has been ingested twice: two rows, two ids
C1_Witness ==
    /\ last.op = "add_ftai_file"
    /\ Head(last.value) = "Imported "
    /\ Len(documents) = 2
    /\ documents[1].title = documents[2].title
    /\ documents[1].content = documents[2].content
    /\ documents[1].id # documents[2].id

\* t occurs in s as a run of consecutive characters
Contains(s, t) == \E i \in 0..(Len(s) - Len(t)) : SubSeq(s, i + 1, i + Len(t)) = t

\* the rows whose stored tag string contains one of the tags, character for character
LiteralMatches(tags) ==
    {i \in 1..Len(documents) : \E k \in 1..Len(tags) : Contains(documents[i].tags, tags[k])}

Min(a, b) == IF a <= b THEN a ELSE b

\* rows is made of the n newest rows of sel, newest first
NewestFirst(rows, sel, n) ==
    /\ Len(rows) = Min(n, Cardinality(sel))
    /\ \A k \in 1..Len(rows) : rows[k] \in sel
    /\ \A j, k \in 1..Len(rows) : j < k => rows[j] # rows[k]
    /\ \A j, k \in 1..Len(rows) :
          j < k => documents[rows[j]].timestamp >= documents[rows[k]].timestamp
    /\ \A i \in sel :
          (\A k \in 1..Len(rows) : rows[k] # i)
             => \A k \in 1..Len(rows) : documents[rows[k]].timestamp >= documents[i].timestamp

\* C2: with a non-empty tag filter and limit >= 0, get_context returns the
\* first limit documents, newest first, among those whose stored tag string
\* contains a requested tag as a literal substring: every returned document
\* passes the substring test for some tag, and at most limit are returned.
C2_LiteralSubstringFilter ==
    (last.op = "get_context" /\ last.status = "returned"
        /\ Truthy(last.tags) /\ last.limit >= 0)
    => /\ \A k \in 1..Len(last.rows) : last.rows[k] \in LiteralMatches(last.tags.list)
       /\ Len(last.rows) <= last.limit
       /\ NewestFirst(last.rows, LiteralMatches(last.tags.list), last.limit)
       /\ last.entries = Fetch(last.rows)

\* C6: an ingest whose source is absent or unreadable returns (does not
\* raise) an error value that carries the path, and adds no row.
C6_UnreadableSourceIsReturned ==
    (last.op = "add_ftai_file" /\ ~CanOpen(last.path))
    => /\ last.status = "returned"
       /\ Head(last.value) # "Imported "
       /\ Len(last.value) > Len(last.path)
       /\ SubSeq(last.value, Len(last.value) - Len(last.path) + 1, Len(last.value)) = last.path
       /\ \A d \in Rows : d.title # Basename(last.path)

\* C7: without tag filter get_context returns the min(limit, store size) most
\* recently ingested documents, a document ingested later before every
\* document ingested earlier.
C7_LaterIngestFirst ==
    (last.op = "get_context" /\ last.status = "returned" /\ ~Truthy(last.tags))
    => /\ Len(last.rows) = Min(last.limit, Len(documents))
       /\ \A k \in 1..Len(last.rows) : last.rows[k] = Len(documents) - k + 1

\* C9: for every store state and every tag filter, get_context with
\* limit = 0 returns an empty sequence.
C9_LimitZeroReturnsEmpty ==
    (last.op = "get_context" /\ last.limit = 0)
    => (last.status = "returned" /\ last.entries = <<>>)

\* the lines of a text: the pieces between its newline characters
Lines(s) ==
    LET breaks == {i \in 1..Len(s) : s[i] = "\n"}
        from(k) == IF k = 1 THEN 1
                   ELSE 1 + CHOOSE i \in breaks : Cardinality({j \in breaks : j < i}) = k - 2
        upto(k) == IF k = Cardinality(breaks) + 1 THEN Len(s)
                   ELSE (CHOOSE i \in breaks : Cardinality({j \in breaks : j < i}) = k - 1) - 1
    IN  [k \in 1..(Cardinality(breaks) + 1) |-> SubSeq(s, from(k), upto(k))]

Dashes == <<"-", "-", "-">>

\* the length of the block of an entry: "# ", the title, a newline, the content, a newline
BlockLen(entry) == Len(entry[1]) + Len(entry[2]) + 4

\* the number of characters of the result before the block of entry k
RECURSIVE Offset(_, _)
Offset(entries, k) ==
    IF k = 1 THEN 0 ELSE Offset(entries, k - 1) + BlockLen(entries[k - 1]) + 5

\* the characters of s from position i + 1 on are t
At(s, i, t) == i + Len(t) <= Len(s) /\ SubSeq(s, i + 1, i + Len(t)) = t

\* a returned assembly of at least one entry
Assembled ==
    last.op = "inject_prompt_memory" /\ last.status = "returned" /\ last.entries # <<>>

\* C8, as claimed: one block per entry in input order (header line, content,
\* trailing blank line), consecutive blocks joined by one three-dash line
\* that has a blank line both before and after it.
C8_SeparatorBetweenBlankLines ==
    Assembled
    => LET ls == Lines(last.value)
       IN  \A k \in 1..Len(ls) :
              ls[k] = Dashes => /\ k > 1 /\ ls[k - 1] = <<>>
                                /\ k < Len(ls) /\ ls[k + 1] = <<>>

\* C8, as the code has it: the result is, entry after entry in input order,
\* the block "# " title, newline, content, newline; after each block but the
\* last come a newline, three dashes and a newline, so that the separator
\* line has a blank line before it and the next header line right after it.
C8_BlocksInOrderWithSeparator ==
    Assembled
    => LET es == last.entries
           out == last.value
           n == Len(es)
       IN  /\ Len(out) = Offset(es, n) + BlockLen(es[n])
           /\ \A k \in 1..n :
                 LET o == Offset(es, k)
                 IN  /\ At(out, o, <<"#", " ">>)
                     /\ At(out, o + 2, es[k][1])
                     /\ At(out, o + 2 + Len(es[k][1]), <<"\n">>)
                     /\ At(out, o + 3 + Len(es[k][1]), es[k][2])
                     /\ At(out, o + BlockLen(es[k]) - 1, <<"\n">>)
                     /\ k < n => /\ At(out, o + BlockLen(es[k]), <<"\n">> \o Dashes \o <<"\n">>)
                                 /\ At(out, o + BlockLen(es[k]) + 5, <<"#", " ">>)

\* two different documents have been assembled into one text
C8_Witness ==
    /\ Assembled
    /\ Len(last.entries) = 2
    /\ last.entries[1] # last.entries[2]
    /\ Len(Lines(last.value)) = 7

\* C10: when retrieval yields no entries (empty store, no document matching
\* the filter, or limit 0), inject_prompt_memory returns the empty string.
C10_NoEntriesEmptyString ==
    (last.op = "inject_prompt_memory" /\ last.status = "returned" /\ last.entries = <<>>)
    => last.value = <<>>

\* a store that holds documents has been asked for none of them
C10_Witness ==
    /\ last.op = "inject_prompt_memory"
    /\ last.status = "returned"
    /\ documents # <<>>
    /\ last.entries = <<>>
    /\ last.value = <<>>


\* C11: after any sequence of ingests of existing sources with arbitrary
\* content (empty content included), every stored document has a non-empty
\* title and a non-empty content.
C11_NonEmptyTitleAndContent ==
    \A d \in Rows : d.title # <<>> /\ d.content # <<>>


\* C12: each public operation releases the connection it opened before
\* control returns to the caller, on every exit path, also when a statement
\* inside it fails: after an operation has ended, normally or with an error,
\* no connection it opened is still open.
C12_ConnectionReleased ==
    last.op \in {"add_ftai_file", "get_context", "inject_prompt_memory"}
    => last.conn # "open"


\* a step of get_context or of inject_prompt_memory: the call recorded after
\* the step is a read, and the clock has not moved
ReadStep == last'.op \in {"get_context", "inject_prompt_memory"} /\ now' = now

\* C13: get_context and inject_prompt_memory are side-effect-free: for every
\* tag filter and limit the rows of the table, every field of every row and
\* the AUTOINCREMENT counter are the same after the call as before it, and
\* the table changes only in a step of add_ftai_file that imports a file.
C13_ReadsLeaveStoreUnchanged ==
    [][/\ ReadStep => (documents' = documents /\ sqlite_sequence' = sqlite_sequence)
       /\ documents' # documents
            => (last'.op = "add_ftai_file" /\ Head(last'.value) = "Imported ")]_vars

\* both documents of a store have been read and assembled
C13_Witness ==
    /\ last.op = "inject_prompt_memory"
    /\ last.status = "returned"
    /\ Len(documents) = 2
    /\ Len(last.rows) = 2
    /\ last.value # <<>>

====
